---- MODULE Spec2Model ----
(***************************************************************************)
(* Terrain streaming of src/main.js: the chunk map, the scene, the         *)
(* character position, the key state and the frame loop.                   *)
(*                                                                         *)
(* Numbers.  Horizontal lengths are integers counting 1/GRID_DIVISIONS of  *)
(* a world unit, so that every grid vertex (i / GRID_DIVISIONS) *          *)
(* CHUNK_SIZE and every chunk origin is exact.  Heights are integers       *)
(* counting 1/NoiseCell^3 of a world unit (the denominator of the          *)
(* interpolated lattice noise).  Chunk coordinates are plain integers.     *)
(***************************************************************************)
EXTENDS Integers, Sequences, FiniteSets, TLC

\* ---------------------------------------------------------------- constants
CHUNK_SIZE == 10
RENDER_DISTANCE == 3
GRID_DIVISIONS == 15
HEIGHT_SCALE == 3
MOVE_SPEED == 5
\* `const scale = 0.1` of getNoiseHeight, as the denominator of 1/10
NoiseScaleDen == 10
CAMERA_OFFSET == <<5, 5, 5>>

\* ------------------------------------------------------------------- bounds
\* frames the loop is followed for
MaxFrames == 2
\* chunk coordinates createChunk is applied to in SpecBuild: -BuildRange..BuildRange
BuildRange == 5

\* clock.getDelta() values, in the unit that makes MOVE_SPEED * deltaTime a
\* length: two and a half chunks ("25 world units") and eight chunks, which is
\* more than a render window is wide
DeltaTimes == {75, 240}
\* bounding-box centres the loaded model may have
Centers == {<<0, 0, 0>>, <<20, 13, -35>>}
\* the key codes pressed and released, one per direction
KeyCodes == {"ArrowUp", "KeyS", "ArrowLeft", "KeyD"}

\* ------------------------------------------------------------------- units
Unit == GRID_DIVISIONS
ChunkLen == CHUNK_SIZE * Unit
NoiseCell == NoiseScaleDen * Unit
HeightOne == NoiseCell * NoiseCell * NoiseCell

Abs(n) == IF n < 0 THEN -n ELSE n
Sign(n) == IF n < 0 THEN -1 ELSE IF n > 0 THEN 1 ELSE 0

\* ------------------------------------------------- template literal / Number
Digits == <<"0", "1", "2", "3", "4", "5", "6", "7", "8", "9">>

RECURSIVE NatToString(_)
NatToString(n) ==
    IF n < 10 THEN <<Digits[n + 1]>>
    ELSE Append(NatToString(n \div 10), Digits[(n % 10) + 1])

\* mutant: the sign is lost when a coordinate is formatted
NumberToStringUnsigned(n) == NatToString(Abs(n))

\* ${x}: the decimal digits, "-" in front of a negative number
NumberToString(n) ==
    IF n < 0 THEN <<"-">> \o NatToString(-n) ELSE NatToString(n)

\* `${x},${z}`
MakeKey(x, z) == NumberToString(x) \o <<",">> \o NumberToString(z)

RECURSIVE SplitFrom(_, _, _, _)
SplitFrom(s, i, cur, acc) ==
    IF i > Len(s) THEN Append(acc, cur)
    ELSE IF s[i] = "," THEN SplitFrom(s, i + 1, <<>>, Append(acc, cur))
    ELSE SplitFrom(s, i + 1, Append(cur, s[i]), acc)

\* key.split(',')
Split(s) == SplitFrom(s, 1, <<>>, <<>>)

DigitValue(c) == CHOOSE d \in 0..9 : Digits[d + 1] = c

RECURSIVE StringToNat(_)
StringToNat(s) ==
    IF s = <<>> THEN 0
    ELSE 10 * StringToNat(SubSeq(s, 1, Len(s) - 1)) + DigitValue(s[Len(s)])

\* Number(text) on the decimal integers the keys hold
ToNumber(s) ==
    IF s # <<>> /\ s[1] = "-" THEN -StringToNat(Tail(s)) ELSE StringToNat(s)

\* const [chunkX, chunkZ] = key.split(',').map(Number)
ParseKey(key) ==
    LET parts == Split(key) IN <<ToNumber(parts[1]), ToNumber(parts[2])>>

\* --------------------------------------------------------------- the noise
(***************************************************************************)
(* noise.noise(x, 0, z) of the imported ImprovedNoise: lattice gradient    *)
(* noise.  The lattice hashing p[p[p[X] + Y] + Z], the gradient selection  *)
(* and the nested interpolation are kept; the 256-entry permutation is     *)
(* a 16-entry one and the fade curve is linear, so that values stay exact  *)
(* small integers.  With y = 0 only the Y plane contributes.               *)
(***************************************************************************)
PermTable == <<7, 12, 1, 14, 4, 9, 15, 2, 10, 5, 0, 13, 8, 3, 11, 6>>
Perm(n) == PermTable[(n % 16) + 1]
Hash(X, Y, Z) == Perm(Perm(Perm(X) + Y) + Z)

Grad(h, x, y, z) ==
    LET u == IF h < 8 THEN x ELSE y
        v == IF h < 4 THEN y ELSE IF h = 12 \/ h = 14 THEN x ELSE z
    IN  (IF h % 2 = 0 THEN u ELSE -u) + (IF (h \div 2) % 2 = 0 THEN v ELSE -v)

\* a + t (b - a), the weight t counted in 1/NoiseCell, the result in 1/NoiseCell of a
Lerp(t, a, b) == NoiseCell * a + t * (b - a)

\* x and z count 1/NoiseCell of a lattice cell
noise(x, z) ==
    LET X  == x \div NoiseCell
        Z  == z \div NoiseCell
        fx == x % NoiseCell
        fz == z % NoiseCell
    IN  Lerp(fz,
             Lerp(fx, Grad(Hash(X, 0, Z), fx, 0, fz),
                      Grad(Hash(X + 1, 0, Z), fx - NoiseCell, 0, fz)),
             Lerp(fx, Grad(Hash(X, 0, Z + 1), fx, 0, fz - NoiseCell),
                      Grad(Hash(X + 1, 0, Z + 1), fx - NoiseCell, 0, fz - NoiseCell)))

\* x * scale: a length in 1/Unit world units is x / (Unit * NoiseScaleDen)
\* lattice cells, that is x counted in 1/NoiseCell of a cell
getNoiseHeight(x, z) == HEIGHT_SCALE * noise(x, z)

\* ------------------------------------------------------------- createChunk
\* (i / GRID_DIVISIONS) * CHUNK_SIZE
LocalCoord(i) == (i * CHUNK_SIZE * Unit) \div GRID_DIVISIONS

\* mutant: the height is sampled at the chunk-local offset
WorldCoordLocal(c, local) == local

\* x * CHUNK_SIZE + x1
WorldCoord(c, local) == c * ChunkLen + local

createChunk(x, z) ==
    [lines1 |-> [i \in 0..GRID_DIVISIONS |-> [j \in 0..GRID_DIVISIONS |->
        <<LocalCoord(i),
          getNoiseHeight(WorldCoord(x, LocalCoord(i)), WorldCoord(z, LocalCoord(j))),
          LocalCoord(j)>>]],
     lines2 |-> [i \in 0..GRID_DIVISIONS |-> [j \in 0..GRID_DIVISIONS |->
        <<LocalCoord(j),
          getNoiseHeight(WorldCoord(x, LocalCoord(j)), WorldCoord(z, LocalCoord(i))),
          LocalCoord(i)>>]],
     position |-> <<x * ChunkLen, 0, z * ChunkLen>>]

\* ------------------------------------------------------------ the chunks Map
(***************************************************************************)
(* A Map is its entry list in insertion order.  delete() empties the entry *)
(* in place and a running for-of iterator keeps its index into the list,   *)
(* so entries after a deleted one are still visited; the emptied entries   *)
(* are dropped when the iteration is over.                                 *)
(***************************************************************************)
NoChunk == [id |-> 0, position |-> <<0, 0, 0>>]
Empty == [key |-> <<>>, chunk |-> NoChunk]

\* mutant: the lookup never finds the key
MapHasNever(entries, key) == FALSE

\* chunks.has(chunkKey)
MapHas(entries, key) == \E i \in 1..Len(entries) : entries[i].key = key

\* chunks.set(chunkKey, chunk)
MapSet(entries, key, chunk) ==
    IF MapHas(entries, key)
    THEN [i \in 1..Len(entries) |->
            IF entries[i].key = key THEN [key |-> key, chunk |-> chunk] ELSE entries[i]]
    ELSE Append(entries, [key |-> key, chunk |-> chunk])

\* mutant: deleting closes the gap at once, as splicing an array does
MapDeleteShift(entries, key) == SelectSeq(entries, LAMBDA e : e.key # key)

\* chunks.delete(key)
MapDelete(entries, key) ==
    [i \in 1..Len(entries) |-> IF entries[i].key = key THEN Empty ELSE entries[i]]

Compact(entries) == SelectSeq(entries, LAMBDA e : e # Empty)

\* ------------------------------------------------------------------ the scene
\* children are <<type, id>>; chunk groups are <<"Group", id>>
\* children.indexOf(object), then children.splice(index, 1)
RemoveFirst(s, o) ==
    IF \E i \in 1..Len(s) : s[i] = o
    THEN LET index == CHOOSE i \in 1..Len(s) :
                        s[i] = o /\ \A k \in 1..(i - 1) : s[k] # o
         IN  SubSeq(s, 1, index - 1) \o SubSeq(s, index + 1, Len(s))
    ELSE s

\* scene.add(object): an object that is already a child is taken out first
SceneAdd(children, o) == Append(RemoveFirst(children, o), o)

\* mutant: the object stays in the scene
SceneRemoveNothing(children, o) == children

\* scene.remove(chunk)
SceneRemove(children, o) == RemoveFirst(children, o)

GroupOf(chunk) == <<"Group", chunk.id>>

\* --------------------------------------------------------------- updateChunks
\* mutant: Math.trunc, which rounds negative quotients towards zero
ChunkCoordTrunc(p) == IF p < 0 THEN -((-p) \div ChunkLen) ELSE p \div ChunkLen

\* Math.floor(p / CHUNK_SIZE)
ChunkCoord(p) == p \div ChunkLen

\* the (x, z) pairs of the two nested for loops, in loop order
WindowSeq(playerChunkX, playerChunkZ) ==
    LET side == 2 * RENDER_DISTANCE + 1
    IN  [k \in 1..(side * side) |->
            <<playerChunkX - RENDER_DISTANCE + ((k - 1) \div side),
              playerChunkZ - RENDER_DISTANCE + ((k - 1) % side)>>]

\* mutant: a chunk is evicted only when it is out of range on both axes
OutOfRangeBoth(chunkX, chunkZ, playerChunkX, playerChunkZ) ==
    /\ Abs(chunkX - playerChunkX) > RENDER_DISTANCE
    /\ Abs(chunkZ - playerChunkZ) > RENDER_DISTANCE

OutOfRange(chunkX, chunkZ, playerChunkX, playerChunkZ) ==
    \/ Abs(chunkX - playerChunkX) > RENDER_DISTANCE
    \/ Abs(chunkZ - playerChunkZ) > RENDER_DISTANCE

\* the group as the streaming code holds it: its identity and its placement
\* (chunkGroup.position.set); its line geometry is createChunk(x, z)
ChunkGroup(id, x, z) == [id |-> id, position |-> <<x * ChunkLen, 0, z * ChunkLen>>]

\* the body of the inner for loop; st = [chunks, scene, nextId, allocated,
\* created, evicted]
InsertBody(st, x, z) ==
    LET chunkKey == MakeKey(x, z)
    IN  IF MapHas(st.chunks, chunkKey) THEN st
        ELSE LET chunk == ChunkGroup(st.nextId, x, z)
             IN  [chunks |-> MapSet(st.chunks, chunkKey, chunk),
                  scene |-> SceneAdd(st.scene, GroupOf(chunk)),
                  nextId |-> st.nextId + 1,
                  allocated |-> st.allocated \cup {chunk.id},
                  created |-> Append(st.created, <<x, z>>),
                  evicted |-> st.evicted]

\* the two nested for loops, run over coords[lo..hi] in order.  The range is
\* halved, and the left half's result is looked at before the right half
\* starts, only to keep TLC's evaluation shallow.
RECURSIVE InsertLoop(_, _, _, _)
InsertLoop(st, coords, lo, hi) ==
    IF lo > hi THEN st
    ELSE IF lo = hi THEN InsertBody(st, coords[lo][1], coords[lo][2])
    ELSE LET mid == (lo + hi) \div 2
             left == InsertLoop(st, coords, lo, mid)
         IN  IF left.nextId >= st.nextId THEN InsertLoop(left, coords, mid + 1, hi)
             ELSE left

\* the body of for (const [key, chunk] of chunks), the iterator at index
EvictBody(st, index, playerChunkX, playerChunkZ) ==
    IF index > Len(st.chunks) THEN st
    ELSE LET entry == st.chunks[index]
         IN  IF entry = Empty THEN st
             ELSE LET c == ParseKey(entry.key)
                  IN  IF OutOfRange(c[1], c[2], playerChunkX, playerChunkZ)
                      THEN [chunks |-> MapDelete(st.chunks, entry.key),
                            scene |-> SceneRemove(st.scene, GroupOf(entry.chunk)),
                            nextId |-> st.nextId,
                            allocated |-> st.allocated,
                            created |-> st.created,
                            evicted |-> Append(st.evicted, entry.key)]
                      ELSE st

\* the for-of loop with the iterator going from lo to hi
RECURSIVE EvictLoop(_, _, _, _, _)
EvictLoop(st, lo, hi, playerChunkX, playerChunkZ) ==
    IF lo > hi THEN st
    ELSE IF lo = hi THEN EvictBody(st, lo, playerChunkX, playerChunkZ)
    ELSE LET mid == (lo + hi) \div 2
             left == EvictLoop(st, lo, mid, playerChunkX, playerChunkZ)
         IN  IF left.nextId >= st.nextId
             THEN EvictLoop(left, mid + 1, hi, playerChunkX, playerChunkZ)
             ELSE left

\* ------------------------------------------------------------------ the state
VARIABLES
    pc,          \* "loading", "running" or "failed"
    step,        \* index into FrameOrder of the next call of animate
    frame,       \* frames rendered
    keyState,    \* the codes whose keyState entry is true
    position,    \* character.position
    cameraPos,   \* camera.position
    chunks,      \* the chunks Map
    scene,       \* scene.children
    nextId,      \* identity of the next chunk group created
    allocated,   \* chunk groups whose geometries and materials were never disposed
    created,     \* createChunk calls of the last updateChunks, in order
    evicted,     \* keys deleted by the last updateChunks, in order
    afterInsert, \* chunks.size between the two loops of the last updateChunks
    snap,        \* chunks and scene when the last updateChunks began
    lastRead,    \* position (x, z) the last updateChunks read, <<>> before it
    prevRead,    \* position (x, z) the updateChunks before that read
    drawn,       \* scene.children handed to the last renderer.render
    probe        \* chunks built by BuildChunks (SpecBuild)

vars == <<pc, step, frame, keyState, position, cameraPos, chunks, scene, nextId,
          allocated, created, evicted, afterInsert, snap, lastRead, prevRead,
          drawn, probe>>

streamVars == <<chunks, scene, nextId, allocated, created, evicted, afterInsert,
                snap, lastRead, prevRead>>

\* mutant: the chunks are updated before the character moves
FrameOrderChunksFirst == <<"updateChunks", "moveCharacter", "updateCamera", "render">>

\* the body of animate
FrameOrder == <<"moveCharacter", "updateCamera", "updateChunks", "render">>

Lights == <<<<"AmbientLight", 0>>, <<"DirectionalLight", 0>>, <<"HemisphereLight", 0>>>>
Character == <<"Character", 0>>

Init ==
    /\ pc = "loading"
    /\ step = 1
    /\ frame = 0
    /\ keyState = {}
    /\ position = <<0, 0, 0>>
    /\ cameraPos = <<CAMERA_OFFSET[1] * Unit, CAMERA_OFFSET[2] * HeightOne,
                     CAMERA_OFFSET[3] * Unit>>
    /\ chunks = <<>>
    /\ scene = Lights
    /\ nextId = 1
    /\ allocated = {}
    /\ created = <<>>
    /\ evicted = <<>>
    /\ afterInsert = 0
    /\ snap = [chunks |-> <<>>, scene |-> <<>>]
    /\ lastRead = <<>>
    /\ prevRead = <<>>
    /\ drawn = <<>>
    /\ probe = <<>>

\* ----------------------------------------------------------------- the actions
\* the keydown listener
KeyDown(code) ==
    /\ pc \in {"loading", "running"}
    /\ step = 1
    /\ frame < MaxFrames
    /\ keyState' = keyState \cup {code}
    /\ UNCHANGED <<pc, step, frame, position, cameraPos, streamVars, drawn, probe>>

\* the keyup listener
KeyUp(code) ==
    /\ pc \in {"loading", "running"}
    /\ step = 1
    /\ frame < MaxFrames
    /\ keyState' = keyState \ {code}
    /\ UNCHANGED <<pc, step, frame, position, cameraPos, streamVars, drawn, probe>>

\* the onLoad callback of loader.load, then animate() is entered
LoadCharacter(center) ==
    /\ pc = "loading"
    /\ pc' = "running"
    /\ scene' = SceneAdd(scene, Character)
    /\ position' = <<0 - center[1], getNoiseHeight(0, 0) + HeightOne, 0 - center[3]>>
    /\ UNCHANGED <<step, frame, keyState, cameraPos, chunks, nextId, allocated,
                   created, evicted, afterInsert, snap, lastRead, prevRead, drawn, probe>>

\* the onError callback: init() rejects and animate() is never entered
LoadFail ==
    /\ pc = "loading"
    /\ pc' = "failed"
    /\ UNCHANGED <<step, frame, keyState, position, cameraPos, streamVars, drawn, probe>>

InFrame(name) ==
    /\ pc = "running"
    /\ frame < MaxFrames
    /\ FrameOrder[step] = name

Advance ==
    /\ step' = IF step = Len(FrameOrder) THEN 1 ELSE step + 1
    /\ frame' = IF step = Len(FrameOrder) THEN frame + 1 ELSE frame

Pressed(a, b) == a \in keyState \/ b \in keyState

(***************************************************************************)
(* moveCharacter.  moveVector.normalize() keeps the direction; the model   *)
(* keeps each component's sign and lets deltaTime carry the length, so a   *)
(* move changes each moving axis by MOVE_SPEED * deltaTime.  Rotation and  *)
(* animation blending do not touch the position and are left out.          *)
(***************************************************************************)
MoveCharacter(deltaTime) ==
    /\ InFrame("moveCharacter")
    /\ LET up    == Pressed("ArrowUp", "KeyW")
           down  == Pressed("ArrowDown", "KeyS")
           left  == Pressed("ArrowLeft", "KeyA")
           right == Pressed("ArrowRight", "KeyD")
           B(b)  == IF b THEN 1 ELSE 0
           mx    == 0 - B(up) + B(down) - B(left) + B(right)
           mz    == 0 - B(up) + B(down) + B(left) - B(right)
           isMoving == up \/ down \/ left \/ right
           nx    == position[1] + Sign(mx) * MOVE_SPEED * deltaTime
           nz    == position[3] + Sign(mz) * MOVE_SPEED * deltaTime
       IN  position' = IF isMoving
                       THEN <<nx, getNoiseHeight(nx, nz) + HeightOne, nz>>
                       ELSE position
    /\ Advance
    /\ UNCHANGED <<pc, keyState, cameraPos, streamVars, drawn, probe>>

UpdateCamera ==
    /\ InFrame("updateCamera")
    /\ cameraPos' = <<position[1] + CAMERA_OFFSET[1] * Unit,
                      position[2] + CAMERA_OFFSET[2] * HeightOne,
                      position[3] + CAMERA_OFFSET[3] * Unit>>
    /\ Advance
    /\ UNCHANGED <<pc, keyState, position, streamVars, drawn, probe>>

\* updateChunks as a function of what it reads: the map, the scene and the
\* character position (the nested LETs make TLC evaluate each loop once)
updateChunks(chunks0, scene0, nextId0, allocated0, pos) ==
    LET playerChunkX == ChunkCoord(pos[1])
        playerChunkZ == ChunkCoord(pos[3])
        st0 == [chunks |-> chunks0, scene |-> scene0, nextId |-> nextId0,
                allocated |-> allocated0, created |-> <<>>, evicted |-> <<>>]
        coords == WindowSeq(playerChunkX, playerChunkZ)
    IN  LET st1 == InsertLoop(st0, coords, 1, Len(coords))
        IN  LET n == Len(st1.chunks)
            IN LET st2 == EvictLoop(st1, 1, n, playerChunkX, playerChunkZ)
               IN  [chunks |-> Compact(st2.chunks), scene |-> st2.scene, nextId |-> st2.nextId,
                    allocated |-> st2.allocated, created |-> st2.created, evicted |-> st2.evicted,
                    afterInsert |-> n]

UpdateChunks ==
    /\ InFrame("updateChunks")
    /\ \E r \in {updateChunks(chunks, scene, nextId, allocated, position)} :
           /\ chunks' = r.chunks
           /\ scene' = r.scene
           /\ nextId' = r.nextId
           /\ allocated' = r.allocated
           /\ created' = r.created
           /\ evicted' = r.evicted
           /\ afterInsert' = r.afterInsert
    /\ snap' = [chunks |-> chunks, scene |-> scene]
    /\ prevRead' = lastRead
    /\ lastRead' = <<position[1], position[3]>>
    /\ Advance
    /\ UNCHANGED <<pc, keyState, position, cameraPos, drawn, probe>>

\* renderer.render(scene, camera); the next frame was requested on entry
Render ==
    /\ InFrame("render")
    /\ drawn' = scene
    /\ Advance
    /\ UNCHANGED <<pc, keyState, position, cameraPos, streamVars, probe>>

Next ==
    \/ \E code \in KeyCodes : KeyDown(code)
    \/ \E code \in KeyCodes : KeyUp(code)
    \/ \E center \in Centers : LoadCharacter(center)
    \/ LoadFail
    \/ \E deltaTime \in DeltaTimes : MoveCharacter(deltaTime)
    \/ UpdateCamera
    \/ UpdateChunks
    \/ Render

Spec == Init /\ [][Next]_vars

\* ------------------------------------------------ createChunk on its own
\* createChunk applied to a coordinate and to its neighbours along x and z
BuildChunks(cx, cz) ==
    /\ probe = <<>>
    /\ probe' = [at |-> <<cx, cz>>,
                 here |-> createChunk(cx, cz),
                 nextX |-> createChunk(cx + 1, cz),
                 nextZ |-> createChunk(cx, cz + 1)]
    /\ UNCHANGED <<pc, step, frame, keyState, position, cameraPos, streamVars, drawn>>

NextBuild == \E cx \in -BuildRange..BuildRange, cz \in -BuildRange..BuildRange :
                BuildChunks(cx, cz)

SpecBuild == Init /\ [][NextBuild]_vars

\* ------------------------------------------------------------------ claims
Side == 2 * RENDER_DISTANCE + 1

\* the greatest q with q * CHUNK_SIZE <= p
FloorChunk(p) ==
    CHOOSE q \in (0 - (Abs(p) \div ChunkLen) - 1)..(Abs(p) \div ChunkLen) :
        q * ChunkLen <= p /\ p < (q + 1) * ChunkLen

\* the render window around chunk (cx, cz)
Window(cx, cz) ==
    {c \in ((cx - RENDER_DISTANCE)..(cx + RENDER_DISTANCE))
           \X ((cz - RENDER_DISTANCE)..(cz + RENDER_DISTANCE)) : TRUE}

WindowAt(read) == Window(FloorChunk(read[1]), FloorChunk(read[2]))

ResidentCoords == {ParseKey(chunks[i].key) : i \in 1..Len(chunks)}
ResidentIds == {chunks[i].chunk.id : i \in 1..Len(chunks)}
SceneGroups == SelectSeq(scene, LAMBDA o : o[1] = "Group")

\* a call of updateChunks has just returned
UpdateChunksDone ==
    /\ pc = "running"
    /\ lastRead # <<>>
    /\ \E k \in 1..Len(FrameOrder) :
          FrameOrder[k] = "updateChunks" /\ step = (k % Len(FrameOrder)) + 1

\* C1: after every completed updateChunks the coordinates resident in the map
\* are exactly the render window around the chunk of the position it read.
StreamingInvariant ==
    UpdateChunksDone => ResidentCoords = WindowAt(lastRead)

\* C1 witness: a call after a jump of eight chunks to a negative position
\* that is not on a chunk boundary
StreamingWitness ==
    /\ UpdateChunksDone
    /\ prevRead = <<-20, 35>>
    /\ lastRead = <<-1220, -1165>>

\* C2: a second updateChunks at the same position creates nothing, evicts
\* nothing and leaves the map and the scene as they were.
Idempotence ==
    (UpdateChunksDone /\ prevRead = lastRead) =>
        /\ created = <<>>
        /\ evicted = <<>>
        /\ chunks = snap.chunks
        /\ scene = snap.scene

\* C2 witness: two calls in a row at a position exactly on a chunk boundary
IdempotenceWitness ==
    /\ UpdateChunksDone
    /\ prevRead = lastRead
    /\ lastRead = <<0 - 8 * ChunkLen, 0>>
    /\ Len(chunks) = Side * Side

\* C3: a call after a call at reference chunk A, itself at B, builds exactly
\* window(B) \ window(A), each once, evicts exactly window(A) \ window(B),
\* and the entries found both before and after, key and group unchanged, are
\* those of the coordinates in both windows.
NoRebuild ==
    (UpdateChunksDone /\ prevRead # <<>>) =>
        LET A == WindowAt(prevRead)
            B == WindowAt(lastRead)
        IN  /\ {created[i] : i \in 1..Len(created)} = B \ A
            /\ Len(created) = Cardinality(B \ A)
            /\ {ParseKey(evicted[i]) : i \in 1..Len(evicted)} = A \ B
            /\ Len(evicted) = Cardinality(A \ B)
            /\ {ParseKey(e.key) :
                    e \in {snap.chunks[i] : i \in 1..Len(snap.chunks)}
                          \cap {chunks[j] : j \in 1..Len(chunks)}} = A \cap B

\* C3 witness: the move from (0, 0) to (25, 0), reference chunk (0,0) to
\* (2,0): two columns of the window are built, two evicted, the rest kept
NoRebuildWitness ==
    /\ UpdateChunksDone
    /\ prevRead = <<0, 0>>
    /\ lastRead = <<25 * Unit, 0>>
    /\ Len(created) = 2 * Side
    /\ Len(evicted) = 2 * Side
    /\ Cardinality(ResidentIds \cap {snap.chunks[i].chunk.id : i \in 1..Len(snap.chunks)})
         = (Side - 2) * Side

\* C4: every coordinate resident before a call and outside that call's window
\* is gone from the map and from the scene when the call returns.
EvictionComplete ==
    UpdateChunksDone =>
        \A i \in 1..Len(snap.chunks) :
            LET e == snap.chunks[i]
            IN  ParseKey(e.key) \notin WindowAt(lastRead) =>
                    /\ \A j \in 1..Len(chunks) : chunks[j].key # e.key
                    /\ \A k \in 1..Len(scene) : scene[k] # GroupOf(e.chunk)

\* C4 witness: a jump so large that the windows do not overlap; the whole
\* old window is evicted in the one call
EvictionWitness ==
    /\ UpdateChunksDone
    /\ Len(snap.chunks) = Side * Side
    /\ Len(evicted) = Side * Side
    /\ Len(created) = Side * Side

\* C5: after an update the only chunk groups whose geometries and materials
\* are still allocated are the resident ones.
ResourcesReleased ==
    UpdateChunksDone => allocated \subseteq ResidentIds

\* C6: at the end of every call the map holds exactly (2 RENDER_DISTANCE + 1)^2
\* entries, and between the two loops at most twice that.
CacheBounded ==
    UpdateChunksDone =>
        /\ Len(chunks) = Side * Side
        /\ afterInsert <= 2 * Side * Side

\* C6 witness: the map at its largest, two full windows between the loops
CacheBoundedWitness ==
    /\ UpdateChunksDone
    /\ afterInsert = 2 * Side * Side
    /\ Len(chunks) = Side * Side

\* C8: at every render the camera has followed the moved character and the
\* resident chunks are the window around the chunk the character is in now.
RenderSeesCurrentWindow ==
    (pc = "running" /\ frame < MaxFrames /\ FrameOrder[step] = "render") =>
        /\ cameraPos = <<position[1] + CAMERA_OFFSET[1] * Unit,
                         position[2] + CAMERA_OFFSET[2] * HeightOne,
                         position[3] + CAMERA_OFFSET[3] * Unit>>
        /\ ResidentCoords = WindowAt(<<position[1], position[3]>>)
        /\ <<FloorChunk(position[1]), FloorChunk(position[3])>> \in ResidentCoords
        /\ {SceneGroups[i] : i \in 1..Len(SceneGroups)}
             = {GroupOf(chunks[i].chunk) : i \in 1..Len(chunks)}

\* C8 witness: the render of a frame in which the character crossed into
\* another chunk
RenderWitness ==
    /\ pc = "running"
    /\ frame < MaxFrames
    /\ FrameOrder[step] = "render"
    /\ drawn # <<>>
    /\ prevRead # <<>>
    /\ FloorChunk(prevRead[1]) # FloorChunk(position[1])

\* C9: at the end of every call the chunk groups in the scene are exactly the
\* values of the map, each once, each placed at the origin of its key's chunk.
SceneMatchesCache ==
    UpdateChunksDone =>
        /\ Len(SceneGroups) = Len(chunks)
        /\ Cardinality({SceneGroups[i] : i \in 1..Len(SceneGroups)}) = Len(SceneGroups)
        /\ {SceneGroups[i] : i \in 1..Len(SceneGroups)}
             = {GroupOf(chunks[i].chunk) : i \in 1..Len(chunks)}
        /\ \A i \in 1..Len(chunks) :
              LET c == ParseKey(chunks[i].key)
              IN  chunks[i].chunk.position
                    = <<c[1] * CHUNK_SIZE * Unit, 0, c[2] * CHUNK_SIZE * Unit>>

\* C9 witness: a call that both built and evicted chunks
SceneMatchesWitness ==
    /\ UpdateChunksDone
    /\ created # <<>>
    /\ evicted # <<>>
    /\ Len(evicted) < Side * Side

\* C10: between frames, once the character is loaded, it stands one unit
\* above the terrain height at its own horizontal position.
CharacterOnTerrain ==
    (pc = "running" /\ step = 1) =>
        position[2] = getNoiseHeight(position[1], position[3]) + HeightOne

\* C7: the vertices two adjacent chunks have on their shared edge lie at the
\* same world (x, z) and carry the same height, along x and along z.
BoundaryContinuity ==
    probe # <<>> =>
        \A j \in 0..GRID_DIVISIONS :
            LET G == GRID_DIVISIONS
                Same(p, a, q, b) ==
                    /\ p.position[1] + a[1] = q.position[1] + b[1]
                    /\ p.position[3] + a[3] = q.position[3] + b[3]
                    /\ a[2] = b[2]
            IN  /\ Same(probe.here, probe.here.lines1[G][j],
                        probe.nextX, probe.nextX.lines1[0][j])
                /\ Same(probe.here, probe.here.lines2[j][G],
                        probe.nextX, probe.nextX.lines2[j][0])
                /\ Same(probe.here, probe.here.lines1[j][G],
                        probe.nextZ, probe.nextZ.lines1[j][0])
                /\ Same(probe.here, probe.here.lines2[G][j],
                        probe.nextZ, probe.nextZ.lines2[0][j])

\* C7 witness: a chunk at a negative coordinate whose edge shared with its
\* x neighbour is not flat
BoundaryWitness ==
    /\ probe # <<>>
    /\ probe.at[1] < 0
    /\ \E j \in 0..GRID_DIVISIONS : probe.here.lines1[GRID_DIVISIONS][j][2] # 0
    /\ \E j \in 0..GRID_DIVISIONS : probe.here.lines1[j][GRID_DIVISIONS][2] # 0

====
